---- MODULE Spec2Model ----
(***************************************************************************)
(* DeFi Guardian (src/src/index.ts, the revision of lines 363-890): the    *)
(* aggregation handler, its upstream client, the risk scorer and the       *)
(* summary generator.                                                      *)
(*                                                                         *)
(* Number scales.  JavaScript numbers with decimals are kept as scaled     *)
(* integers: health_factor and net_apr in hundredths (1.2 is 120),         *)
(* il_percentage in tenths (-5 is -50).  The scorer's running sum is in    *)
(* tenths; Math.round turns it into units.                                 *)
(***************************************************************************)
EXTENDS Integers, Sequences, FiniteSets, TLC

VARIABLES
    slots,      \* the request slots open to callers in this behaviour
    pc,         \* per request: where the handler stands
    input,      \* per request: the request body handed to the entrypoint
    frame,      \* per request: the handler's locals (criticalAlerts, xxxData)
    net,        \* per request: the fetch the handler is awaiting
    calls,      \* per request: the upstream services called so far, in order
    report,     \* per request: the output returned by the handler
    clock,      \* Date.now(), in request arrivals
    run,        \* per request: 1 for the first invocation, 2 for its repeat
    first,      \* per request: what the first invocation saw and returned
    scIn,       \* scorer harness: the arguments of the latest call
    scOut,      \* scorer harness: the value the latest call returned
    scPrev,     \* scorer harness: the call before it, and its value
    smIn,       \* summary harness: the arguments of the call
    smOut       \* summary harness: the clauses the call returned

vars == <<slots, pc, input, frame, net, calls, report, clock, run, first,
          scIn, scOut, scPrev, smIn, smOut>>

handlerVars == <<slots, pc, input, frame, net, calls, report, clock, run, first>>
scorerVars == <<scIn, scOut, scPrev, smIn, smOut>>

(***************************************************************************)
(* Bounds of the model.                                                    *)
(***************************************************************************)
MaxPositions == 3      \* scorer harness: lending positions per payload
MaxAlertsCount == 5    \* scorer harness: largest yield alerts_count
MaxIL10 == 108         \* scorer harness: deepest loss, in tenths of a percent
MaxGain10 == 3         \* scorer harness: largest positive il, in tenths
MaxSummaryAlerts == 2  \* summary harness: most critical alerts handed in

Reqs == {"r1", "r2"}

(***************************************************************************)
(* JavaScript values.                                                      *)
(***************************************************************************)
Null == [null |-> TRUE]

MathMin(a, b) == IF a < b THEN a ELSE b
MathAbs(a) == IF a < 0 THEN 0 - a ELSE a
\* Math.round of a value given in tenths: the nearest integer, halves upward.
MathRound10(x10) == (x10 + 5) \div 10

\* x || d, by the truthiness of x.
OrNumber(x, d) == IF x # 0 THEN x ELSE d
OrString(x, d) == IF x # "" THEN x ELSE d
OrArray(x, d) == x

RECURSIVE SelectSeqCount(_, _)
SelectSeqCount(s, hfBelow) ==
    IF s = <<>> THEN 0
    ELSE (IF Head(s).health_factor < hfBelow THEN 1 ELSE 0)
         + SelectSeqCount(Tail(s), hfBelow)

RECURSIVE SumCollateral(_)
SumCollateral(s) ==
    IF s = <<>> THEN 0 ELSE Head(s).collateral_usd + SumCollateral(Tail(s))

SeqRange(s) == {s[i] : i \in 1..Len(s)}

(***************************************************************************)
(* Upstream payloads (the data model of the six internal services).        *)
(***************************************************************************)
Services == {"portfolio", "lending", "yield", "lp", "perps", "arbitrage"}

Pos(protocol, chain, hf, coll) ==
    [protocol |-> protocol, chain_id |-> chain,
     health_factor |-> hf, collateral_usd |-> coll]

LendingPayloads ==
    { [positions |-> <<>>, total_positions |-> 0, at_risk_count |-> 0],
      [positions |-> <<Pos("aave", 1, 100, 5000), Pos("compound", 1, 130, 2000),
                       Pos("aave", 8453, 110, 1000)>>,
       total_positions |-> 3, at_risk_count |-> 3],
      [positions |-> <<Pos("aave", 1, 100, 5000), Pos("aave", 1, 100, 5000)>>,
       total_positions |-> 2, at_risk_count |-> 2],
      [positions |-> <<Pos("compound", 42161, 120, 800)>>,
       total_positions |-> 1, at_risk_count |-> 1],
      [positions |-> <<Pos("compound", 8453, 119, 600)>>,
       total_positions |-> 1, at_risk_count |-> 1],
      [positions |-> <<Pos("aave", 1, 250, 9000)>>,
       total_positions |-> 1, at_risk_count |-> 0] }

YieldPayloads ==
    { [pools |-> <<>>, alerts_count |-> 0],
      [pools |-> <<"pool-a", "pool-b">>, alerts_count |-> 1],
      [pools |-> <<"pool-a">>, alerts_count |-> 5] }

LpPayloads ==
    { [il_percentage |-> -150, net_apr |-> -420, recommendation |-> "Consider exiting"],
      [il_percentage |-> -100, net_apr |-> 0, recommendation |-> "Hold"],
      [il_percentage |-> -90, net_apr |-> 1250, recommendation |-> ""],
      [il_percentage |-> -55, net_apr |-> 300, recommendation |-> "Hold"],
      [il_percentage |-> 0, net_apr |-> 830, recommendation |-> "Hold"] }

LpPos(protocol) == [protocol |-> protocol]

PortfolioPayloads ==
    { [lp_positions |-> <<>>, total_portfolio_value_usd |-> 0],
      [lp_positions |-> <<LpPos("uniswap-v3")>>, total_portfolio_value_usd |-> 1000],
      [lp_positions |-> <<LpPos("curve"), LpPos("uniswap-v3")>>,
       total_portfolio_value_usd |-> 2500] }

PerpsPayloads == { [positions |-> <<"BTC/USDT:USDT">>] }

ArbitragePayloads == { [opportunities |-> <<"eth-usdc">>] }

Payloads(service) ==
    CASE service = "portfolio" -> PortfolioPayloads
      [] service = "lending" -> LendingPayloads
      [] service = "yield" -> YieldPayloads
      [] service = "lp" -> LpPayloads
      [] service = "perps" -> PerpsPayloads
      [] service = "arbitrage" -> ArbitragePayloads

\* What one fetch can come to: a 2xx response with a JSON body, a non-2xx
\* response, a rejected fetch (timeout, DNS failure, connection reset), or a
\* 2xx response whose body is not JSON.
Outcomes(service) ==
    { [kind |-> "ok", body |-> b] : b \in Payloads(service) }
    \cup { [kind |-> k, body |-> Null] :
             k \in {"http_error", "network_error", "invalid_json"} }

(***************************************************************************)
(* The upstream client: callInternalService.                               *)
(***************************************************************************)
Returned(v) == [raised |-> FALSE, value |-> v]
Raised == [raised |-> TRUE, value |-> Null]

\* The body of the try block: fetch rejects, or a non-ok status is mapped to
\* null, or response.json() rejects, or the parsed body is returned.
TryFetch(o) ==
    CASE o.kind = "network_error" -> Raised
      [] o.kind = "http_error" -> Returned(Null)
      [] o.kind = "invalid_json" -> Raised
      [] o.kind = "ok" -> Returned(o.body)

callInternalService_NoCatch(o) == TryFetch(o)

\* try { ... } catch (error) { return null; }
callInternalService(o) ==
    IF TryFetch(o).raised THEN Returned(Null) ELSE TryFetch(o)

(***************************************************************************)
(* The risk scorer: calculateRiskScore.                                    *)
(***************************************************************************)
\* Lending risk, in units: 25 per position with health_factor < 1.2, at most 50.
LendingComponent_TwentyEach(lendingData) ==
    IF lendingData # Null
    THEN MathMin(SelectSeqCount(lendingData.positions, 120) * 20, 50)
    ELSE 0

LendingComponent_Inclusive(lendingData) ==
    IF lendingData # Null
    THEN MathMin(SelectSeqCount(lendingData.positions, 121) * 25, 50)
    ELSE 0

LendingComponent(lendingData) ==
    IF lendingData # Null
    THEN MathMin(SelectSeqCount(lendingData.positions, 120) * 25, 50)
    ELSE 0

LpComponent10_NoAbs(lpData) ==
    IF lpData # Null /\ lpData.il_percentage # 0 /\ lpData.il_percentage < -50
    THEN MathMin(lpData.il_percentage * 3, 300)
    ELSE 0

LpComponent10_Uncapped(lpData) ==
    IF lpData # Null /\ lpData.il_percentage # 0 /\ lpData.il_percentage < -50
    THEN MathAbs(lpData.il_percentage) * 3
    ELSE 0

\* Impermanent-loss risk, in tenths: 3 per percent of loss beyond -5, at most 30.
LpComponent10(lpData) ==
    IF lpData # Null /\ lpData.il_percentage # 0 /\ lpData.il_percentage < -50
    THEN MathMin(MathAbs(lpData.il_percentage) * 3, 300)
    ELSE 0

YieldComponent_NoCap(yieldData) ==
    IF yieldData # Null /\ yieldData.alerts_count # 0
    THEN yieldData.alerts_count * 5
    ELSE 0

\* Yield risk, in units: 5 per alert, at most 20.
YieldComponent(yieldData) ==
    IF yieldData # Null /\ yieldData.alerts_count # 0
    THEN MathMin(yieldData.alerts_count * 5, 20)
    ELSE 0

calculateRiskScore(lendingData, lpData, yieldData) ==
    MathMin(MathRound10(10 * LendingComponent(lendingData)
                        + LpComponent10(lpData)
                        + 10 * YieldComponent(yieldData)), 100)

(***************************************************************************)
(* The alerts the handler pushes.                                          *)
(***************************************************************************)
\* health_factor.toFixed(2) of a value held in hundredths is the value itself.
LendingAlert(pos) ==
    [alert |-> "health_factor", protocol |-> pos.protocol,
     chain_id |-> pos.chain_id, value |-> pos.health_factor]

LendingAlerts_Reversed(positions) ==
    LET critical == SelectSeq(positions, LAMBDA p : p.health_factor < 120)
    IN  [i \in 1..Len(critical) |-> LendingAlert(critical[Len(critical) + 1 - i])]

RECURSIVE LendingAlerts(_)
LendingAlerts(positions) ==
    IF positions = <<>> THEN <<>>
    ELSE (IF Head(positions).health_factor < 120
          THEN <<LendingAlert(Head(positions))>> ELSE <<>>)
         \o LendingAlerts(Tail(positions))

IlAlert(position, lpData) ==
    [alert |-> "impermanent_loss", protocol |-> position.protocol,
     chain_id |-> 0, value |-> lpData.il_percentage]

IlAlerts_Twice(position, lpData) ==
    IF lpData # Null /\ lpData.il_percentage # 0 /\ lpData.il_percentage < -100
    THEN <<IlAlert(position, lpData), IlAlert(position, lpData)>>
    ELSE <<>>

IlAlerts_Inclusive(position, lpData) ==
    IF lpData # Null /\ lpData.il_percentage # 0 /\ lpData.il_percentage <= -100
    THEN <<IlAlert(position, lpData)>>
    ELSE <<>>

\* if (lpData?.il_percentage && lpData.il_percentage < -10)
IlAlerts(position, lpData) ==
    IF lpData # Null /\ lpData.il_percentage # 0 /\ lpData.il_percentage < -100
    THEN <<IlAlert(position, lpData)>>
    ELSE <<>>

(***************************************************************************)
(* The summary generator: generateSummary.  The string is kept as the      *)
(* sequence of its clauses, each with the numbers it prints.               *)
(***************************************************************************)
Clause(kind, n, m, k) == [clause |-> kind, n |-> n, m |-> m, k |-> k]

riskLevel_Exclusive(riskScore) ==
    IF riskScore > 75 THEN "CRITICAL"
    ELSE IF riskScore > 50 THEN "HIGH"
    ELSE IF riskScore > 25 THEN "MODERATE"
    ELSE "LOW"

riskLevel(riskScore) ==
    IF riskScore >= 75 THEN "CRITICAL"
    ELSE IF riskScore >= 50 THEN "HIGH"
    ELSE IF riskScore >= 25 THEN "MODERATE"
    ELSE "LOW"

LpPositionsOf_Stale(portfolioData) ==
    IF portfolioData # Null THEN OrArray(portfolioData.lp_positions, <<>>)
    ELSE <<[protocol |-> "uniswap-v3"]>>

\* portfolioData?.lp_positions || []
LpPositionsOf(portfolioData) ==
    IF portfolioData # Null THEN OrArray(portfolioData.lp_positions, <<>>) ELSE <<>>

generateSummary_AlertsFirst(riskScore, criticalAlerts, lendingData, yieldData, lpData, portfolioData) ==
    <<[clause |-> riskLevel(riskScore), n |-> riskScore, m |-> 100, k |-> 0]>>
    \o (IF Len(criticalAlerts) > 0
        THEN <<Clause("critical_alerts", Len(criticalAlerts), 0, 0)>> ELSE <<>>)
    \o (IF lendingData # Null /\ lendingData.total_positions > 0
        THEN <<Clause("deposited", SumCollateral(lendingData.positions),
                      lendingData.total_positions, 0)>>
        ELSE <<>>)

generateSummary_CountsLending(riskScore, criticalAlerts, lendingData, yieldData, lpData, portfolioData) ==
    LET lending == SelectSeq(criticalAlerts, LAMBDA a : a.alert = "health_factor")
    IN  <<[clause |-> riskLevel(riskScore), n |-> riskScore, m |-> 100, k |-> 0]>>
        \o (IF Len(lending) > 0
            THEN <<Clause("critical_alerts", Len(lending), 0, 0)>> ELSE <<>>)

generateSummary(riskScore, criticalAlerts, lendingData, yieldData, lpData, portfolioData) ==
    LET lpPositions == LpPositionsOf(portfolioData)
        totalLpValue == IF portfolioData # Null
                        THEN OrNumber(portfolioData.total_portfolio_value_usd, 0)
                        ELSE 0
        totalPositions == IF lendingData # Null THEN lendingData.total_positions ELSE 0
        head == <<[clause |-> riskLevel(riskScore), n |-> riskScore, m |-> 100, k |-> 0]>>
        lpFound == IF Len(lpPositions) > 0
                   THEN <<Clause("lp_positions_found", Len(lpPositions), totalLpValue,
                                 Cardinality({p.protocol : p \in SeqRange(lpPositions)}))>>
                   ELSE <<>>
        deposited == IF lendingData # Null /\ lendingData.total_positions > 0
                     THEN <<Clause("deposited", SumCollateral(lendingData.positions),
                                   lendingData.total_positions, 0)>>
                     ELSE <<>>
        alerts == IF Len(criticalAlerts) > 0
                  THEN <<Clause("critical_alerts", Len(criticalAlerts), 0, 0)>>
                  ELSE <<>>
        atRisk == IF lendingData # Null /\ lendingData.at_risk_count > 0
                  THEN <<Clause("at_liquidation_risk", lendingData.at_risk_count, 0, 0)>>
                  ELSE <<>>
        lpApr == IF lpData # Null /\ lpData.net_apr # 0
                 THEN (IF lpData.net_apr < 0
                       THEN <<Clause("lp_negative_returns", lpData.net_apr, 0, 0)>>
                       ELSE <<Clause("lp_earning", lpData.net_apr, 0, 0)>>)
                 ELSE <<>>
        opportunities == IF yieldData # Null /\ Len(yieldData.pools) > 0
                         THEN <<Clause("high_yield_opportunities", Len(yieldData.pools), 0, 0)>>
                         ELSE <<>>
        closing == IF riskScore < 25 /\ lendingData # Null
                      /\ lendingData.total_positions = 0 /\ Len(lpPositions) = 0
                   THEN <<Clause("no_active_positions", 0, 0, 0)>>
                   ELSE IF riskScore < 25
                   THEN <<Clause("positions_healthy", 0, 0, 0)>>
                   ELSE <<>>
    IN  head \o lpFound \o deposited \o alerts \o atRisk \o lpApr
        \o opportunities \o closing

(***************************************************************************)
(* The report the handler returns.                                         *)
(***************************************************************************)
LendingSection_AlwaysPresent(lendingData) ==
    [positions |-> IF lendingData # Null THEN lendingData.positions ELSE <<>>,
     at_risk_count |-> IF lendingData # Null THEN lendingData.at_risk_count ELSE 0]

LendingSection(lendingData) ==
    IF lendingData # Null
    THEN [positions |-> OrArray(lendingData.positions, <<>>),
          at_risk_count |-> OrNumber(lendingData.at_risk_count, 0)]
    ELSE Null

YieldSection(yieldData) ==
    IF yieldData # Null
    THEN [pools |-> OrArray(yieldData.pools, <<>>),
          alerts_count |-> OrNumber(yieldData.alerts_count, 0)]
    ELSE Null

LpSection_WrongField(lpData) ==
    IF lpData # Null
    THEN [il_percentage |-> OrNumber(lpData.il_percentage, 0),
          net_apr |-> OrNumber(lpData.il_percentage, 0),
          recommendation |-> OrString(lpData.recommendation, "No data")]
    ELSE Null

LpSection(lpData) ==
    IF lpData # Null
    THEN [il_percentage |-> OrNumber(lpData.il_percentage, 0),
          net_apr |-> OrNumber(lpData.net_apr, 0),
          recommendation |-> OrString(lpData.recommendation, "No data")]
    ELSE Null

PerpsSection(perpsData) ==
    IF perpsData # Null
    THEN [positions |-> OrArray(perpsData.positions, <<>>)]
    ELSE Null

ArbitrageSection(arbitrageData) ==
    IF arbitrageData # Null
    THEN [opportunities |-> OrArray(arbitrageData.opportunities, <<>>)]
    ELSE Null

BuildReport(in, f, now) ==
    LET riskScore == calculateRiskScore(f.lendingData, f.lpData, f.yieldData)
        summary == generateSummary(riskScore, f.criticalAlerts, f.lendingData,
                                   f.yieldData, f.lpData, f.portfolioData)
    IN  [wallet_address |-> in.wallet_address,
         overall_risk_score |-> riskScore,
         total_positions |->
             (IF f.lendingData # Null THEN OrNumber(f.lendingData.total_positions, 0) ELSE 0)
             + (IF f.yieldData # Null THEN OrNumber(Len(f.yieldData.pools), 0) ELSE 0),
         critical_alerts |-> f.criticalAlerts,
         lending_analysis |-> LendingSection(f.lendingData),
         yield_analysis |-> YieldSection(f.yieldData),
         lp_analysis |-> LpSection(f.lpData),
         perps_analysis |-> PerpsSection(f.perpsData),
         arbitrage_opportunities |-> ArbitrageSection(f.arbitrageData),
         summary |-> summary,
         timestamp |-> now]

(***************************************************************************)
(* Requests.  A JSON value keeps its JSON type beside its content, so that *)
(* the zod schema's type checks have something to reject.                  *)
(***************************************************************************)
Str(text) == [json |-> "string", text |-> text]
Num(text) == [json |-> "number", text |-> text]
ChainList(items) == [json |-> "array<number>", items |-> items]
Undefined == [json |-> "undefined", items |-> <<>>]
NotAList == [json |-> "string", items |-> <<>>]

DefaultChainIds == <<1, 42161, 8453>>

ExplicitLp == [protocol |-> "balancer"]

Request(wallet, chains, perps, arbitrage, lps) ==
    [wallet_address |-> wallet, chain_ids |-> chains, include_perps |-> perps,
     include_arbitrage |-> arbitrage, lp_positions |-> lps]

\* The bodies a caller may post: every combination of the options on a well-formed
\* wallet and chain list, and the ill-formed wallets and chain lists.
RawRequests ==
    { Request(Str("0x742d35Cc6634C0532925a3b844Bc9e7595f0bEb"), ChainList(DefaultChainIds),
              p, a, l) :
        p \in BOOLEAN, a \in BOOLEAN, l \in {<<>>, <<ExplicitLp>>} }
    \cup { Request(w, c, FALSE, TRUE, <<>>) :
             w \in {Str("0x742d35Cc6634C0532925a3b844Bc9e7595f0bEb")},
             c \in {Undefined, NotAList, ChainList(<<>>), ChainList(<<-1>>)} }
    \cup { Request(w, ChainList(DefaultChainIds), FALSE, FALSE, <<>>) :
             w \in {Str("not-an-address"), Str(""), Num("42")} }

\* GuardianInputSchema: wallet_address z.string(); chain_ids z.array(z.number()),
\* optional with a default.  The other fields are well typed in every RawRequest.
SchemaAccepts(raw) ==
    /\ raw.wallet_address.json = "string"
    /\ raw.chain_ids.json \in {"array<number>", "undefined"}

SchemaParse(raw) ==
    [raw EXCEPT !.chain_ids = IF raw.chain_ids.json = "undefined"
                               THEN ChainList(DefaultChainIds) ELSE @]

(***************************************************************************)
(* The handler.                                                            *)
(***************************************************************************)
NoInput == Request(Str(""), ChainList(<<>>), FALSE, FALSE, <<>>)

EmptyFrame ==
    [criticalAlerts |-> <<>>, portfolioData |-> Null, lendingData |-> Null,
     yieldData |-> Null, lpData |-> Null, perpsData |-> Null, arbitrageData |-> Null]

NetIdle == [state |-> "idle"]

InitialAlerts_Leaked(old) == old

\* const criticalAlerts: string[] = [];  (old: the array of the last invocation)
InitialAlerts(old) == <<>>

StartFrame(old) == [EmptyFrame EXCEPT !.criticalAlerts = InitialAlerts(old.criticalAlerts)]

AfterPerps(in) == IF in.include_arbitrage THEN "arbitrage" ELSE "assemble"

AfterLp_Always(in) == "perps"

AfterLp(in) == IF in.include_perps THEN "perps" ELSE AfterPerps(in)

FirstAwait_Lp(in) == "lp"

\* The first await of the handler: the portfolio scan, whatever the request.
FirstAwait(in) == "portfolio"

PhaseAfter_Retry(service, in, f) ==
    CASE service = "portfolio" -> "lending"
      [] service = "lending" -> IF f.lendingData = Null THEN "lending" ELSE "yield"
      [] service = "yield" ->
            IF Len(LpPositionsOf(f.portfolioData)) > 0 THEN "lp" ELSE AfterLp(in)
      [] service = "lp" -> AfterLp(in)
      [] service = "perps" -> AfterPerps(in)
      [] service = "arbitrage" -> "assemble"

PhaseAfter_YieldFirst(service, in, f) ==
    CASE service = "portfolio" -> "yield"
      [] service = "yield" -> "lending"
      [] service = "lending" ->
            IF Len(LpPositionsOf(f.portfolioData)) > 0 THEN "lp" ELSE AfterLp(in)
      [] service = "lp" -> AfterLp(in)
      [] service = "perps" -> AfterPerps(in)
      [] service = "arbitrage" -> "assemble"

\* The next await of the handler once the call of `service` has returned.
PhaseAfter(service, in, f) ==
    CASE service = "portfolio" -> "lending"
      [] service = "lending" -> "yield"
      [] service = "yield" ->
            IF Len(LpPositionsOf(f.portfolioData)) > 0 THEN "lp" ELSE AfterLp(in)
      [] service = "lp" -> AfterLp(in)
      [] service = "perps" -> AfterPerps(in)
      [] service = "arbitrage" -> "assemble"

\* The assignment of the returned value and the synchronous code after it.
Assign(service, f, v) ==
    CASE service = "portfolio" -> [f EXCEPT !.portfolioData = v]
      [] service = "lending" ->
            [f EXCEPT !.lendingData = v,
                      !.criticalAlerts =
                          @ \o (IF v # Null THEN LendingAlerts(v.positions) ELSE <<>>)]
      [] service = "yield" -> [f EXCEPT !.yieldData = v]
      [] service = "lp" ->
            [f EXCEPT !.lpData = v,
                      !.criticalAlerts =
                          @ \o IlAlerts(LpPositionsOf(f.portfolioData)[1], v)]
      [] service = "perps" -> [f EXCEPT !.perpsData = v]
      [] service = "arbitrage" -> [f EXCEPT !.arbitrageData = v]

\* What the handler holds for `service` once its call has returned.
Held(f, service) ==
    CASE service = "portfolio" -> f.portfolioData
      [] service = "lending" -> f.lendingData
      [] service = "yield" -> f.yieldData
      [] service = "lp" -> f.lpData
      [] service = "perps" -> f.perpsData
      [] service = "arbitrage" -> f.arbitrageData

ScIdle == [lendingData |-> Null, lpData |-> Null, yieldData |-> Null]

SmIdle ==
    [riskScore |-> 0, criticalAlerts |-> <<>>, lendingData |-> Null, yieldData |-> Null,
     lpData |-> Null, portfolioData |-> Null]

\* A summary always has its first sentence, so the empty one is no summary.
NotSummarised == <<>>

HandlerInit ==
    /\ pc = [r \in Reqs |-> "idle"]
    /\ input = [r \in Reqs |-> NoInput]
    /\ frame = [r \in Reqs |-> EmptyFrame]
    /\ net = [r \in Reqs |-> NetIdle]
    /\ calls = [r \in Reqs |-> <<>>]
    /\ report = [r \in Reqs |-> Null]
    /\ clock = 0
    /\ run = [r \in Reqs |-> 1]
    /\ first = [r \in Reqs |-> Null]

Init ==
    /\ slots = {"r1"}
    /\ HandlerInit
    /\ scIn = ScIdle
    /\ scOut = 0
    /\ scPrev = Null
    /\ smIn = SmIdle
    /\ smOut = NotSummarised

\* Two requests in flight draw from a part of the bodies and of the upstream
\* outcomes: one payload per service, or a non-2xx answer.
ConcRequests ==
    { Request(Str("0x742d35Cc6634C0532925a3b844Bc9e7595f0bEb"), ChainList(DefaultChainIds),
              p, FALSE, <<>>) : p \in BOOLEAN }

ConcBody(service) ==
    CASE service = "portfolio" ->
            [lp_positions |-> <<LpPos("uniswap-v3")>>, total_portfolio_value_usd |-> 1000]
      [] service = "lending" ->
            [positions |-> <<Pos("aave", 1, 100, 5000), Pos("compound", 1, 130, 2000),
                             Pos("aave", 8453, 110, 1000)>>,
             total_positions |-> 3, at_risk_count |-> 3]
      [] service = "yield" -> [pools |-> <<"pool-a", "pool-b">>, alerts_count |-> 1]
      [] service = "lp" ->
            [il_percentage |-> -150, net_apr |-> -420, recommendation |-> "Consider exiting"]
      [] service = "perps" -> [positions |-> <<"BTC/USDT:USDT">>]
      [] service = "arbitrage" -> [opportunities |-> <<"eth-usdc">>]

ConcOutcomes(service) ==
    { o \in Outcomes(service) :
        o.kind = "http_error" \/ (o.kind = "ok" /\ o.body = ConcBody(service)) }

Arrivals == IF Cardinality(slots) > 1 THEN ConcRequests ELSE RawRequests

Upstream(service) ==
    IF Cardinality(slots) > 1 THEN ConcOutcomes(service) ELSE Outcomes(service)

AlertsOwner_Shared(r) == "r1"

\* const criticalAlerts is declared inside the handler: the array an invocation
\* pushes to and reads from is the one it created itself.
AlertsOwner(r) == r

\* A request arrives: the entrypoint parses it with GuardianInputSchema and,
\* if it parses, calls the handler, which runs up to its first await.
Invoke(r) ==
    /\ r \in slots
    /\ pc[r] = "idle"
    /\ \E raw \in Arrivals :
         IF SchemaAccepts(raw)
         THEN /\ pc' = [pc EXCEPT ![r] = FirstAwait(SchemaParse(raw))]
              /\ input' = [input EXCEPT ![r] = SchemaParse(raw)]
              /\ frame' = [frame EXCEPT ![r] = StartFrame(@)]
         ELSE /\ pc' = [pc EXCEPT ![r] = "rejected"]
              /\ input' = [input EXCEPT ![r] = raw]
              /\ frame' = frame
    /\ clock' = clock + 1
    /\ UNCHANGED <<slots, net, calls, report, run, first, scorerVars>>

\* callInternalService(INTERNAL_SERVICES[pc], ...): the fetch is issued.
Fetch(r) ==
    /\ r \in slots
    /\ pc[r] \in Services
    /\ net[r].state = "idle"
    /\ net' = [net EXCEPT ![r] = [state |-> "pending", service |-> pc[r]]]
    /\ calls' = [calls EXCEPT ![r] = Append(@, pc[r])]
    /\ UNCHANGED <<slots, pc, input, frame, report, clock, run, first, scorerVars>>

\* The responses a repeat of a request is given: those of its first invocation.
Allowed(r, service) ==
    IF run[r] = 1 THEN Upstream(service)
    ELSE { o \in Outcomes(service) :
             (IF o.kind = "ok" THEN o.body ELSE Null) = Held(first[r].frame, service) }

\* The upstream answers, or the transport fails.
Respond(r) ==
    /\ r \in slots
    /\ net[r].state = "pending"
    /\ \E o \in Allowed(r, net[r].service) :
         net' = [net EXCEPT ![r] = [state |-> "arrived", service |-> net[r].service,
                                    outcome |-> o]]
    /\ UNCHANGED <<slots, pc, input, frame, calls, report, clock, run, first, scorerVars>>

\* The upstream never answers: fetch is given no signal and no timeout, so the
\* promise stays pending.  (A repeat is answered as the first invocation was.)
Stall(r) ==
    /\ r \in slots
    /\ net[r].state = "pending"
    /\ run[r] = 1
    /\ net' = [net EXCEPT ![r] = [state |-> "hung", service |-> net[r].service]]
    /\ UNCHANGED <<slots, pc, input, frame, calls, report, clock, run, first, scorerVars>>

\* callInternalService settles its promise.
Return(r) ==
    /\ r \in slots
    /\ net[r].state = "arrived"
    /\ net' = [net EXCEPT ![r] = [state |-> "returned", service |-> net[r].service,
                                  outcome |-> net[r].outcome,
                                  ret |-> callInternalService(net[r].outcome)]]
    /\ UNCHANGED <<slots, pc, input, frame, calls, report, clock, run, first, scorerVars>>

\* The handler resumes after its await and runs to the next one, or to its
\* return; a rejected promise leaves the handler as an exception.
Continue(r) ==
    /\ r \in slots
    /\ net[r].state = "returned"
    /\ net' = [net EXCEPT ![r] = NetIdle]
    /\ LET ret == net[r].ret
           service == net[r].service
           owner == AlertsOwner(r)
           held == [frame[r] EXCEPT !.criticalAlerts = frame[owner].criticalAlerts]
           f2 == Assign(service, held, ret.value)
           next == PhaseAfter(service, input[r], f2)
       IN  IF ret.raised
           THEN /\ pc' = [pc EXCEPT ![r] = "threw"]
                /\ UNCHANGED <<frame, report>>
           ELSE /\ frame' = [frame EXCEPT ![r] = f2,
                                           ![owner].criticalAlerts = f2.criticalAlerts]
                /\ IF next = "assemble"
                   THEN /\ pc' = [pc EXCEPT ![r] = "done"]
                        /\ report' = [report EXCEPT ![r] = BuildReport(input[r], f2, clock)]
                   ELSE /\ pc' = [pc EXCEPT ![r] = next]
                        /\ report' = report
    /\ UNCHANGED <<slots, input, calls, clock, run, first, scorerVars>>

\* The same request is posted again once its report is out.
Replay(r) ==
    /\ r \in slots
    /\ pc[r] = "done"
    /\ run[r] = 1
    /\ first' = [first EXCEPT ![r] = [frame |-> frame[r], report |-> report[r]]]
    /\ run' = [run EXCEPT ![r] = 2]
    /\ pc' = [pc EXCEPT ![r] = FirstAwait(input[r])]
    /\ frame' = [frame EXCEPT ![r] = StartFrame(@)]
    /\ calls' = [calls EXCEPT ![r] = <<>>]
    /\ report' = [report EXCEPT ![r] = Null]
    /\ clock' = clock + 1
    /\ UNCHANGED <<slots, input, net, scorerVars>>

Next ==
    \E r \in Reqs :
        \/ Invoke(r)
        \/ Fetch(r)
        \/ Respond(r)
        \/ Stall(r)
        \/ Return(r)
        \/ Continue(r)

Spec == Init /\ [][Next]_vars

NextReplay == Next \/ \E r \in Reqs : Replay(r)

SpecReplay == Init /\ [][NextReplay]_vars

\* Two requests in flight at once: the event loop may run either handler's
\* continuation at every await.
InitConc ==
    /\ slots = Reqs
    /\ HandlerInit
    /\ scIn = ScIdle
    /\ scOut = 0
    /\ scPrev = Null
    /\ smIn = SmIdle
    /\ smOut = NotSummarised

SpecConc == InitConc /\ [][Next]_vars

\* The event loop runs every continuation that is ready, and an upstream that
\* is going to answer does answer; a stalled call stays stalled.
SpecLive == Spec /\ WF_vars(Next)

(***************************************************************************)
(* The scorer on its own: calculateRiskScore applied to drawn arguments,   *)
(* then to the same arguments with one of its three drivers raised.        *)
(***************************************************************************)
HealthFactors == {100, 110, 120, 130}

ScorerPos(hf) == Pos("aave", 1, hf, 1000)

RECURSIVE PositionSeqs(_)
PositionSeqs(n) ==
    IF n = 0 THEN {<<>>}
    ELSE PositionSeqs(n - 1)
         \cup { Append(s, ScorerPos(hf)) :
                  s \in {t \in PositionSeqs(n - 1) : Len(t) = n - 1},
                  hf \in HealthFactors }

ScorerLending ==
    {Null} \cup { [positions |-> s, total_positions |-> Len(s),
                   at_risk_count |-> Len(s)] : s \in PositionSeqs(MaxPositions) }

\* Losses far past the cap of the LP component: -15 and -20 percent.
DeepLosses == {-150, -200}

ScorerLp ==
    {Null} \cup { [il_percentage |-> il, net_apr |-> 0, recommendation |-> "Hold"] :
                    il \in ((0 - MaxIL10)..MaxGain10) \cup DeepLosses }

ScorerYield ==
    {Null} \cup { [pools |-> <<>>, alerts_count |-> n] : n \in 0..MaxAlertsCount }

NotScored == 0 - 1

InitScore ==
    /\ slots = {}
    /\ HandlerInit
    /\ scIn \in [lendingData : ScorerLending, lpData : ScorerLp, yieldData : ScorerYield]
    /\ scOut = NotScored
    /\ scPrev = Null
    /\ smIn = SmIdle
    /\ smOut = NotSummarised

Score ==
    /\ scOut = NotScored
    /\ scOut' = calculateRiskScore(scIn.lendingData, scIn.lpData, scIn.yieldData)
    /\ UNCHANGED <<scIn, scPrev, smIn, smOut, handlerVars>>

ScoreAgain(args, driver) ==
    /\ scOut # NotScored
    /\ scPrev = Null
    /\ scPrev' = [args |-> scIn, out |-> scOut, raised |-> driver]
    /\ scIn' = args
    /\ scOut' = calculateRiskScore(args.lendingData, args.lpData, args.yieldData)
    /\ UNCHANGED <<smIn, smOut, handlerVars>>

\* One more lending position with health_factor < 1.2.
MoreCritical ==
    /\ scIn.lendingData # Null
    /\ Len(scIn.lendingData.positions) < MaxPositions
    /\ ScoreAgain([scIn EXCEPT !.lendingData.positions = Append(@, ScorerPos(110))],
                  "critical_count")

\* A loss one tenth of a percent deeper.
DeeperLoss ==
    /\ scIn.lpData # Null
    /\ scIn.lpData.il_percentage <= 0
    /\ scIn.lpData.il_percentage > 0 - MaxIL10
    /\ ScoreAgain([scIn EXCEPT !.lpData.il_percentage = @ - 1], "il_magnitude")

\* One more yield alert.
MoreYieldAlerts ==
    /\ scIn.yieldData # Null
    /\ scIn.yieldData.alerts_count < MaxAlertsCount
    /\ ScoreAgain([scIn EXCEPT !.yieldData.alerts_count = @ + 1], "alerts_count")

NextScore == Score \/ MoreCritical \/ DeeperLoss \/ MoreYieldAlerts

SpecScore == InitScore /\ [][NextScore]_vars

(***************************************************************************)
(* The summary generator on its own: generateSummary applied to a drawn    *)
(* score, a drawn number of alerts and drawn upstream results.             *)
(***************************************************************************)
MaxScore == 100

RECURSIVE SummaryAlerts(_)
SummaryAlerts(n) ==
    IF n = 0 THEN {<<>>}
    ELSE SummaryAlerts(n - 1)
         \cup { Append(a, LendingAlert(Pos("aave", 1, 110, 1000))) :
                  a \in {b \in SummaryAlerts(n - 1) : Len(b) = n - 1} }

InitSummary ==
    /\ slots = {}
    /\ HandlerInit
    /\ scIn = ScIdle
    /\ scOut = 0
    /\ scPrev = Null
    /\ smIn \in [riskScore : 0..MaxScore,
                 criticalAlerts : SummaryAlerts(MaxSummaryAlerts),
                 lendingData : {Null} \cup LendingPayloads,
                 yieldData : {Null} \cup YieldPayloads,
                 lpData : {Null} \cup LpPayloads,
                 portfolioData : {Null} \cup PortfolioPayloads]
    /\ smOut = NotSummarised

Summarise ==
    /\ smOut = NotSummarised
    /\ smOut' = generateSummary(smIn.riskScore, smIn.criticalAlerts, smIn.lendingData,
                                smIn.yieldData, smIn.lpData, smIn.portfolioData)
    /\ UNCHANGED <<smIn, scIn, scOut, scPrev, handlerVars>>

NextSummary == Summarise

SpecSummary == InitSummary /\ [][NextSummary]_vars

(***************************************************************************)
(* Properties.                                                             *)
(***************************************************************************)
Done(r) == pc[r] = "done"

HasClause(summary, kind) == \E i \in 1..Len(summary) : summary[i].clause = kind

\* The data model's well-formed request: an address-shaped wallet and a list of
\* positive chain ids.
AddressShaped(w) ==
    w.json = "string" /\ w.text \in {"0x742d35Cc6634C0532925a3b844Bc9e7595f0bEb"}

ChainIdsValid(c) ==
    c.json = "array<number>" /\ \A i \in 1..Len(c.items) : c.items[i] > 0

Malformed(in) == ~AddressShaped(in.wallet_address) \/ ~ChainIdsValid(in.chain_ids)

\* C1: whatever the upstreams returned, the overall_risk_score of a returned
\* report is an integer from 0 to 100.
C1_ScoreWithinRange ==
    \A r \in Reqs : report[r] # Null => report[r].overall_risk_score \in 0..100

C1_Witness ==
    \E r \in Reqs : /\ report[r] # Null
                    /\ report[r].overall_risk_score = 100
                    /\ frame[r].lpData # Null

\* C2: no outcome of an upstream call leaves the handler as an exception: the
\* handler is never in "threw", a request whose call has been answered can always
\* take its next step, and a handler that reached its end has returned a report.
C2_HandlerAlwaysReturns ==
    \A r \in Reqs :
        /\ pc[r] # "threw"
        /\ net[r].state = "arrived" => ENABLED Return(r)
        /\ net[r].state = "returned" => ENABLED Continue(r)
        /\ (pc[r] \in Services /\ net[r].state = "idle") => ENABLED Fetch(r)
        /\ Done(r) <=> report[r] # Null

C2_Witness ==
    \E r \in Reqs : /\ Done(r)
                    /\ report[r] # Null
                    /\ frame[r].portfolioData = Null
                    /\ frame[r].lendingData = Null
                    /\ frame[r].yieldData # Null

AllAbsent(f) == \A s \in Services : Held(f, s) = Null

\* C3: if every upstream call returned Absent, the report has score 0, no
\* critical alerts, total_positions 0, and a summary with the "no active
\* positions" clause.
C3_AllAbsentSaysNoActivePositions ==
    \A r \in Reqs :
        (Done(r) /\ ~Malformed(input[r]) /\ AllAbsent(frame[r])) =>
            /\ report[r].overall_risk_score = 0
            /\ report[r].critical_alerts = <<>>
            /\ report[r].total_positions = 0
            /\ HasClause(report[r].summary, "no_active_positions")

\* C4: a section of the report is absent exactly when the handler got Absent for
\* its own upstream (or never called it), whatever the other upstreams returned;
\* with lending Absent the score is the rounded sum of the yield and LP
\* contributions alone.
C4_Called(r, service) == \E i \in 1..Len(calls[r]) : calls[r][i] = service

C4_YieldPlusLp10(f) ==
    (IF f.yieldData = Null THEN 0
     ELSE 10 * (IF 5 * f.yieldData.alerts_count < 20
                THEN 5 * f.yieldData.alerts_count ELSE 20))
    + (IF f.lpData # Null /\ f.lpData.il_percentage < -50
       THEN (IF 3 * (0 - f.lpData.il_percentage) < 300
             THEN 3 * (0 - f.lpData.il_percentage) ELSE 300)
       ELSE 0)

C4_PartialFailureIsolated ==
    \A r \in Reqs :
        Done(r) =>
            /\ report[r].lending_analysis = Null <=> frame[r].lendingData = Null
            /\ report[r].yield_analysis = Null <=> frame[r].yieldData = Null
            /\ report[r].lp_analysis = Null <=> frame[r].lpData = Null
            /\ report[r].perps_analysis = Null <=> frame[r].perpsData = Null
            /\ report[r].arbitrage_opportunities = Null <=> frame[r].arbitrageData = Null
            /\ \A s \in Services : ~C4_Called(r, s) => Held(frame[r], s) = Null
            /\ frame[r].lendingData = Null =>
                   report[r].overall_risk_score = (C4_YieldPlusLp10(frame[r]) + 5) \div 10

C4_Witness ==
    \E r \in Reqs : /\ Done(r)
                    /\ report[r].lending_analysis = Null
                    /\ report[r].yield_analysis # Null
                    /\ report[r].lp_analysis # Null
                    /\ report[r].overall_risk_score = 35

\* C5 as stated: every section of the report is absent or is the parsed payload,
\* field for field, with nothing filled in by the handler.
C5_Lending(p) == [positions |-> p.positions, at_risk_count |-> p.at_risk_count]
C5_Yield(p) == [pools |-> p.pools, alerts_count |-> p.alerts_count]
C5_Lp(p) == [il_percentage |-> p.il_percentage, net_apr |-> p.net_apr,
             recommendation |-> p.recommendation]
C5_Perps(p) == [positions |-> p.positions]
C5_Arbitrage(p) == [opportunities |-> p.opportunities]

C5_AbsentOr(section, payload, projected) ==
    section = Null \/ (payload # Null /\ section = projected)

C5_SectionsAreThePayload ==
    \A r \in Reqs :
        (Done(r) /\ ~Malformed(input[r])) =>
            LET f == frame[r]
                out == report[r]
            IN  /\ C5_AbsentOr(out.lending_analysis, f.lendingData, C5_Lending(f.lendingData))
                /\ C5_AbsentOr(out.yield_analysis, f.yieldData, C5_Yield(f.yieldData))
                /\ C5_AbsentOr(out.lp_analysis, f.lpData, C5_Lp(f.lpData))
                /\ C5_AbsentOr(out.perps_analysis, f.perpsData, C5_Perps(f.perpsData))
                /\ C5_AbsentOr(out.arbitrage_opportunities, f.arbitrageData,
                               C5_Arbitrage(f.arbitrageData))

\* C5 as amended: a section is absent exactly when the handler holds no payload
\* for it; a present section carries the payload's fields unchanged, except that
\* an empty recommendation is reported as "No data" (a falsy field gets the
\* handler's default: [] for a list, 0 for a number, "No data").
C5_Defaulted(section, payload, expected) ==
    IF payload = Null THEN section = Null ELSE section = expected

C5_SectionsArePayloadOrDefaults ==
    \A r \in Reqs :
        Done(r) =>
            LET f == frame[r]
                out == report[r]
            IN  /\ C5_Defaulted(out.lending_analysis, f.lendingData,
                                C5_Lending(f.lendingData))
                /\ C5_Defaulted(out.yield_analysis, f.yieldData, C5_Yield(f.yieldData))
                /\ C5_Defaulted(out.lp_analysis, f.lpData,
                                [C5_Lp(f.lpData) EXCEPT !.recommendation =
                                     IF @ = "" THEN "No data" ELSE @])
                /\ C5_Defaulted(out.perps_analysis, f.perpsData, C5_Perps(f.perpsData))
                /\ C5_Defaulted(out.arbitrage_opportunities, f.arbitrageData,
                                C5_Arbitrage(f.arbitrageData))

C5_Witness ==
    \E r \in Reqs : /\ Done(r)
                    /\ frame[r].lpData # Null
                    /\ frame[r].lpData.recommendation = ""
                    /\ report[r].lp_analysis.recommendation = "No data"
                    /\ report[r].lp_analysis.il_percentage = frame[r].lpData.il_percentage

\* C6: a request posted twice, with the upstreams answering the second time as
\* they did the first, gets the same overall_risk_score, the same critical_alerts
\* in the same order and the same summary; the timestamp may differ.
C6_SameResponses(r) ==
    \A s \in Services : Held(frame[r], s) = Held(first[r].frame, s)

C6_RepeatGivesSameReport ==
    \A r \in Reqs :
        (run[r] = 2 /\ Done(r) /\ C6_SameResponses(r)) =>
            /\ report[r].overall_risk_score = first[r].report.overall_risk_score
            /\ report[r].critical_alerts = first[r].report.critical_alerts
            /\ report[r].summary = first[r].report.summary

C6_Witness ==
    \E r \in Reqs : /\ run[r] = 2
                    /\ Done(r)
                    /\ C6_SameResponses(r)
                    /\ Len(report[r].critical_alerts) = 3
                    /\ report[r].timestamp # first[r].report.timestamp

\* C7: a malformed request (a wallet address that is not address-shaped, a chain
\* id list that is not a list of positive integers) is rejected before any
\* upstream call: no call is made and no report is produced for it.
C7_MalformedRejectedBeforeCalls ==
    \A r \in Reqs :
        (pc[r] # "idle" /\ Malformed(input[r])) =>
            /\ calls[r] = <<>>
            /\ net[r].state = "idle"
            /\ report[r] = Null

\* C8: callInternalService never raises to its caller: a response that is not
\* ok, a failed transport and an unparsable body all return null, and an ok
\* response returns its parsed body.
C8_ClientNeverRaises ==
    \A r \in Reqs :
        net[r].state = "returned" =>
            /\ ~net[r].ret.raised
            /\ net[r].outcome.kind = "ok" => net[r].ret.value = net[r].outcome.body
            /\ net[r].outcome.kind # "ok" => net[r].ret.value = Null

C8_Witness ==
    \E r \in Reqs : /\ net[r].state = "returned"
                    /\ net[r].outcome.kind = "invalid_json"
                    /\ net[r].ret = Returned(Null)

\* C9: every upstream call ends within a timeout that counts as Absent, so a
\* request whose handler has started always comes to return its report, even
\* when an upstream never answers.
C9_StartedRequestReturns ==
    \A r \in Reqs : (pc[r] \in Services) ~> Done(r)

\* C10: with the other two held fixed, the score does not go down when the
\* number of positions with health_factor < 1.2 goes up, when a negative
\* il_percentage gets larger in magnitude, or when alerts_count goes up.
C10_ScoreMonotone ==
    scPrev # Null => scPrev.out <= scOut

C10_Witness ==
    /\ scPrev # Null
    /\ scPrev.raised = "il_magnitude"
    /\ scPrev.args.lpData.il_percentage = -50
    /\ scPrev.out < scOut

\* The alerts a request's own upstream answers call for: those of its lending
\* positions, then that of its primary LP position.
C11_OwnAlerts(f) ==
    (IF f.lendingData # Null THEN LendingAlerts(f.lendingData.positions) ELSE <<>>)
    \o (IF Len(LpPositionsOf(f.portfolioData)) > 0
        THEN IlAlerts(LpPositionsOf(f.portfolioData)[1], f.lpData)
        ELSE <<>>)

\* The report of a request that runs alone and is given the answers `f` holds.
C11_Alone(in, f, now) ==
    BuildReport(in, [f EXCEPT !.criticalAlerts = C11_OwnAlerts(f)], now)

\* C11: with two requests in flight and their handlers interleaved at every
\* await, each request's report is the one it would get running alone on its own
\* input and its own upstream answers: no alert of the other request enters it.
C11_ConcurrentRequestsIndependent ==
    \A r \in Reqs :
        Done(r) => report[r] = C11_Alone(input[r], frame[r], report[r].timestamp)

\* Both requests arrived before either returned; one was given critical lending
\* positions and the other no lending answer, and its report has no alert.
C11_Witness ==
    /\ Done("r1") /\ Done("r2")
    /\ report["r1"].timestamp = 2 /\ report["r2"].timestamp = 2
    /\ Len(report["r1"].critical_alerts) = 3
    /\ frame["r2"].lendingData = Null /\ frame["r2"].lpData = Null
    /\ report["r2"].critical_alerts = <<>>

\* C12: the portfolio-scan upstream is called only for a request that supplies
\* no explicit LP positions; a request with a non-empty lp_positions list never
\* has it called.
C12_ScanOnlyWithoutExplicitLp ==
    \A r \in Reqs :
        ~Malformed(input[r]) =>
            /\ Len(input[r].lp_positions) > 0 => ~C4_Called(r, "portfolio")
            /\ (Done(r) /\ Len(input[r].lp_positions) = 0) => C4_Called(r, "portfolio")

\* A request has a primary LP position: the first it supplied, or else the
\* first the portfolio scan detected.
C13_HasPrimary(r) ==
    Len(input[r].lp_positions) > 0 \/ Len(LpPositionsOf(frame[r].portfolioData)) > 0

\* C13: the LP impermanent-loss upstream is called if and only if a primary LP
\* position exists, supplied by the request or detected by the scan; when none
\* exists the call is skipped and lp_analysis is absent.
C13_LpCalledIffPrimaryPosition ==
    \A r \in Reqs :
        (Done(r) /\ ~Malformed(input[r])) =>
            /\ C4_Called(r, "lp") <=> C13_HasPrimary(r)
            /\ ~C13_HasPrimary(r) => report[r].lp_analysis = Null

\* C14: the perpetuals upstream is called if and only if include_perps is true
\* and the arbitrage upstream if and only if include_arbitrage is true; with the
\* flag false the section is absent from the report.
C14_OptionalCallsFollowFlags ==
    \A r \in Reqs :
        /\ C4_Called(r, "perps") => input[r].include_perps
        /\ C4_Called(r, "arbitrage") => input[r].include_arbitrage
        /\ Done(r) =>
              /\ input[r].include_perps => C4_Called(r, "perps")
              /\ input[r].include_arbitrage => C4_Called(r, "arbitrage")
              /\ ~input[r].include_perps => report[r].perps_analysis = Null
              /\ ~input[r].include_arbitrage => report[r].arbitrage_opportunities = Null

\* Perpetuals asked for and answered, arbitrage not asked for.
C14_Witness ==
    /\ Done("r1")
    /\ input["r1"].include_perps /\ ~input["r1"].include_arbitrage
    /\ C4_Called("r1", "perps") /\ ~C4_Called("r1", "arbitrage")
    /\ report["r1"].perps_analysis # Null
    /\ report["r1"].arbitrage_opportunities = Null

C15_IlAlertCount(alerts) ==
    Cardinality({ i \in 1..Len(alerts) : alerts[i].alert = "impermanent_loss" })

\* C15: the report carries exactly one impermanent-loss alert when the LP
\* analysis returned an il_percentage strictly below -10, and none when it
\* returned -10 or more or was Absent.
C15_IlAlertBelowMinusTen ==
    \A r \in Reqs :
        Done(r) =>
            C15_IlAlertCount(report[r].critical_alerts)
              = (IF frame[r].lpData # Null /\ frame[r].lpData.il_percentage < -100
                 THEN 1 ELSE 0)

\* An LP analysis of -15 percent gave one alert, carrying that value.
C15_Witness ==
    /\ Done("r1")
    /\ frame["r1"].lpData # Null
    /\ frame["r1"].lpData.il_percentage = -150
    /\ C15_IlAlertCount(report["r1"].critical_alerts) = 1
    /\ \E i \in 1..Len(report["r1"].critical_alerts) :
          /\ report["r1"].critical_alerts[i].alert = "impermanent_loss"
          /\ report["r1"].critical_alerts[i].value = -150

C17_Closings(summary) ==
    { i \in 1..Len(summary) :
        summary[i].clause \in {"no_active_positions", "positions_healthy"} }

\* C17: a report with a score below 25 ends with exactly one closing clause:
\* "no active positions" when there are no lending positions (the lending
\* source Absent included) and no detected LP positions, "positions healthy"
\* otherwise; a report with a score of 25 or more has neither clause.
C17_ClosingClause ==
    \A r \in Reqs :
        (Done(r) /\ ~Malformed(input[r])) =>
            LET summary == report[r].summary
                f == frame[r]
                noLending == f.lendingData = Null \/ f.lendingData.total_positions = 0
                noLp == Len(LpPositionsOf(f.portfolioData)) = 0
            IN  IF report[r].overall_risk_score < 25
                THEN /\ C17_Closings(summary) = {Len(summary)}
                     /\ summary[Len(summary)].clause =
                            (IF noLending /\ noLp THEN "no_active_positions"
                             ELSE "positions_healthy")
                ELSE C17_Closings(summary) = {}

\* The reference scorer, in tenths of a point: L, P and Y of the three sources.
C18_L10(lendingData) ==
    IF lendingData = Null THEN 0
    ELSE LET critical == { i \in 1..Len(lendingData.positions) :
                             lendingData.positions[i].health_factor < 120 }
             raw == 250 * Cardinality(critical)
         IN  IF raw < 500 THEN raw ELSE 500

C18_P10(lpData) ==
    IF lpData = Null THEN 0
    ELSE IF lpData.il_percentage < -50
         THEN LET loss == 0 - lpData.il_percentage
              IN  IF 3 * loss < 300 THEN 3 * loss ELSE 300
         ELSE 0

C18_Y10(yieldData) ==
    IF yieldData = Null THEN 0
    ELSE IF 50 * yieldData.alerts_count < 200 THEN 50 * yieldData.alerts_count ELSE 200

\* x10 tenths rounded to the nearest whole, halves upward, then kept in 0..100.
C18_RoundClamp(x10) ==
    LET whole == CHOOSE n \in 0..200 : 10 * n - 5 <= x10 /\ x10 < 10 * n + 5
    IN  IF whole > 100 THEN 100 ELSE IF whole < 0 THEN 0 ELSE whole

\* C18: calculateRiskScore returns what the reference scorer returns on every
\* input: clamp to 0..100 of round(L + P + Y), with L = min(25 * critical
\* positions, 50), P = min(3 * |il|, 30) for il below -5 and 0 otherwise,
\* Y = min(5 * alerts_count, 20), an Absent source contributing 0.
C18_ScorerMatchesReference ==
    scOut # NotScored =>
        scOut = C18_RoundClamp(C18_L10(scIn.lendingData) + C18_P10(scIn.lpData)
                               + C18_Y10(scIn.yieldData))

\* Three critical positions, a loss of 5.5 percent and five alerts: 50 + 16.5
\* + 20 rounds to 87.
C18_Witness ==
    /\ scOut = 87
    /\ scIn.lendingData # Null /\ Len(scIn.lendingData.positions) = 3
    /\ scIn.lpData # Null /\ scIn.lpData.il_percentage = -55
    /\ scIn.yieldData # Null /\ scIn.yieldData.alerts_count = 5

\* C19: with the LP and yield sources Absent the score is the lending
\* contribution: 25 per position with health_factor strictly below 1.2 (a
\* position at exactly 1.2 is not counted), at most 50; two or more critical
\* positions give exactly 50.
C19_LendingContribution ==
    (scOut # NotScored /\ scIn.lpData = Null /\ scIn.yieldData = Null
       /\ scIn.lendingData # Null) =>
        LET hfs == scIn.lendingData.positions
            count == Cardinality({ i \in 1..Len(hfs) : hfs[i].health_factor < 120 })
        IN  /\ count = 0 => scOut = 0
            /\ count = 1 => scOut = 25
            /\ count >= 2 => scOut = 50

\* Health factors 1.0, 1.3 and 1.1 contribute 50.
C19_Witness ==
    /\ scOut = 50
    /\ scIn.lpData = Null /\ scIn.yieldData = Null
    /\ scIn.lendingData # Null
    /\ Len(scIn.lendingData.positions) = 3
    /\ scIn.lendingData.positions[1].health_factor = 100
    /\ scIn.lendingData.positions[2].health_factor = 130
    /\ scIn.lendingData.positions[3].health_factor = 110

\* C20: with the lending and yield sources Absent the score is the rounded LP
\* contribution: min(3 * |il|, 30) when il_percentage is strictly below -5, and
\* 0 at exactly -5, at any il of 0 or more, and when the LP source is Absent.
C20_LpContribution ==
    (scOut # NotScored /\ scIn.lendingData = Null /\ scIn.yieldData = Null) =>
        IF scIn.lpData # Null /\ scIn.lpData.il_percentage < -50
        THEN LET p10 == 3 * (0 - scIn.lpData.il_percentage)
             IN  IF p10 >= 300 THEN scOut = 30
                 ELSE 10 * scOut - 5 <= p10 /\ p10 < 10 * scOut + 5
        ELSE scOut = 0

\* A loss of 20 percent contributes 30.
C20_Witness ==
    /\ scOut = 30
    /\ scIn.lendingData = Null /\ scIn.yieldData = Null
    /\ scIn.lpData # Null /\ scIn.lpData.il_percentage = -200

C21_LendingPart(alerts) == SelectSeq(alerts, LAMBDA a : a.alert = "health_factor")

\* C21: the lending alerts of a report are the order-preserving image of the
\* lending positions with health_factor below 1.2: one alert per such position,
\* in payload order, two identical positions giving two alerts, and none for a
\* position at 1.2 or above (or when the lending source is Absent).
C21_LendingAlertsFollowPositions ==
    \A r \in Reqs :
        Done(r) =>
            LET positions == IF frame[r].lendingData # Null
                             THEN frame[r].lendingData.positions ELSE <<>>
                critical == SelectSeq(positions, LAMBDA p : p.health_factor < 120)
                part == C21_LendingPart(report[r].critical_alerts)
            IN  /\ Len(part) = Len(critical)
                /\ \A i \in 1..Len(critical) :
                      /\ part[i].protocol = critical[i].protocol
                      /\ part[i].chain_id = critical[i].chain_id
                      /\ part[i].value = critical[i].health_factor

\* Health factors 1.0, 1.3 and 1.1 gave two alerts, 1.0 first.
C21_Witness ==
    /\ Done("r1")
    /\ frame["r1"].lendingData # Null
    /\ Len(frame["r1"].lendingData.positions) = 3
    /\ Len(C21_LendingPart(report["r1"].critical_alerts)) = 2
    /\ report["r1"].critical_alerts[1].value = 100
    /\ report["r1"].critical_alerts[2].value = 110
    /\ report["r1"].critical_alerts[2].chain_id = 8453

\* C22: when the position-discovery upstream returned Absent the request goes
\* on as with no detected position: the LP upstream is not called, lp_analysis
\* is absent, there is no impermanent-loss alert, and the lending and yield
\* upstreams are still called.
C22_ScanAbsentMeansNoLp ==
    \A r \in Reqs :
        (C4_Called(r, "portfolio") /\ pc[r] # "portfolio"
           /\ frame[r].portfolioData = Null) =>
            /\ ~C4_Called(r, "lp")
            /\ Done(r) =>
                  /\ report[r].lp_analysis = Null
                  /\ C15_IlAlertCount(report[r].critical_alerts) = 0
                  /\ C4_Called(r, "lending")
                  /\ C4_Called(r, "yield")

\* The scan failed and the lending answer still reached the report.
C22_Witness ==
    /\ Done("r1")
    /\ frame["r1"].portfolioData = Null
    /\ calls["r1"] = <<"portfolio", "lending", "yield">>
    /\ report["r1"].lending_analysis # Null
    /\ report["r1"].lp_analysis = Null

C23_Failed(o) == o.kind # "ok"

\* C23: within one request no upstream is called more than once, whatever the
\* calls came to; a failed call returns Absent at once, and the call in flight
\* is always the one issued last, never an earlier one issued again.
C23_NoRetry ==
    \A r \in Reqs :
        /\ \A i, j \in 1..Len(calls[r]) : i # j => calls[r][i] # calls[r][j]
        /\ (net[r].state = "returned" /\ C23_Failed(net[r].outcome)) =>
              net[r].ret = Returned(Null)
        /\ net[r].state # "idle" =>
              /\ Len(calls[r]) > 0
              /\ net[r].service = calls[r][Len(calls[r])]

\* The lending and yield calls both failed and the handler went on to the LP call.
C23_Witness ==
    /\ Done("r1")
    /\ frame["r1"].portfolioData # Null
    /\ frame["r1"].lendingData = Null
    /\ frame["r1"].yieldData = Null
    /\ calls["r1"] = <<"portfolio", "lending", "yield", "lp">>

\* The call of `service` has been issued and has come back to the handler.
C24_Resolved(r, service) ==
    /\ C4_Called(r, service)
    /\ net[r].state = "idle" \/ net[r].service # service

\* C24: the LP call of a request is issued only once its position-discovery
\* call has resolved, with a payload or Absent; and the report is assembled only
\* once every call the request issued has resolved.
C24_LpWaitsForDiscovery ==
    \A r \in Reqs :
        /\ C4_Called(r, "lp") => C24_Resolved(r, "portfolio")
        /\ report[r] # Null =>
              /\ net[r].state = "idle"
              /\ \A i \in 1..Len(calls[r]) : C24_Resolved(r, calls[r][i])

\* The LP call is in flight on the first position the scan returned.
C24_Witness ==
    /\ net["r1"].state = "pending"
    /\ net["r1"].service = "lp"
    /\ frame["r1"].portfolioData # Null
    /\ Len(frame["r1"].portfolioData.lp_positions) = 2
    /\ report["r1"] = Null

\* The place of a clause in the summary, the clause on detected LP positions
\* included; 0 for the first sentence and for anything else.
C25_Rank(kind) ==
    CASE kind = "lp_positions_found" -> 1
      [] kind = "deposited" -> 2
      [] kind = "critical_alerts" -> 3
      [] kind = "at_liquidation_risk" -> 4
      [] kind \in {"lp_negative_returns", "lp_earning"} -> 5
      [] kind = "high_yield_opportunities" -> 6
      [] kind \in {"no_active_positions", "positions_healthy"} -> 7
      [] OTHER -> 0

C25_InOrder(summary, ranks) ==
    /\ \A i \in 2..Len(summary) : C25_Rank(summary[i].clause) \in ranks
    /\ \A i, j \in 2..Len(summary) :
          i < j => C25_Rank(summary[i].clause) < C25_Rank(summary[j].clause)

\* C25 as stated: after the first sentence a summary holds only the clauses on
\* collateral, alert count, at-risk count, LP net APR, yield opportunities and
\* the closing clause, in that order whatever the data.
C25_OnlyListedClausesInOrder ==
    smOut # NotSummarised => C25_InOrder(smOut, 2..7)

\* C25: after the first sentence a summary holds, in this order whatever the
\* data, the clauses on detected LP positions, collateral, alert count, at-risk
\* count, LP net APR, yield opportunities and the closing clause, and no other.
C25_ClausesInFixedOrder ==
    smOut # NotSummarised => C25_InOrder(smOut, 1..7)

\* A summary with every clause: the first sentence and the seven that follow.
C25_Witness ==
    /\ Len(smOut) = 8
    /\ smOut[2].clause = "lp_positions_found"
    /\ smOut[4].clause = "critical_alerts"
    /\ smOut[8].clause = "positions_healthy"

\* C26: the summary of a report has the LP net-APR clause whenever the LP
\* analysis is present, as negative returns for net_apr below 0 and as earnings
\* otherwise, net_apr = 0 included; it has neither without LP data.
C26_LpAprClause ==
    \A r \in Reqs :
        Done(r) =>
            LET summary == report[r].summary
                lpData == frame[r].lpData
            IN  /\ HasClause(summary, "lp_negative_returns")
                      <=> (lpData # Null /\ lpData.net_apr < 0)
                /\ HasClause(summary, "lp_earning")
                      <=> (lpData # Null /\ lpData.net_apr >= 0)

\* C27: a returned report with any critical alert has a score of 25 or more,
\* so it never carries the low-risk label nor either closing clause.
C27_AlertsMeanAtLeastModerate ==
    \A r \in Reqs :
        (Done(r) /\ Len(report[r].critical_alerts) > 0) =>
            /\ report[r].overall_risk_score >= 25
            /\ report[r].summary[1].clause # "LOW"
            /\ C17_Closings(report[r].summary) = {}

\* One position just below 1.2 and nothing else: one alert, score exactly 25.
C27_Witness ==
    /\ Done("r1")
    /\ Len(report["r1"].critical_alerts) = 1
    /\ report["r1"].critical_alerts[1].value = 119
    /\ report["r1"].overall_risk_score = 25
    /\ report["r1"].summary[1].clause = "MODERATE"

C28_AlertClauses(summary) ==
    SelectSeq(summary, LAMBDA c : c.clause = "critical_alerts")

\* C28: the alert count the summary states is the length of critical_alerts of
\* the same report, the impermanent-loss alert counted, and the summary has the
\* alert-count clause exactly when critical_alerts is not empty.
C28_SummaryCountsAllAlerts ==
    \A r \in Reqs :
        Done(r) =>
            LET stated == C28_AlertClauses(report[r].summary)
                alerts == report[r].critical_alerts
            IN  IF Len(alerts) > 0
                THEN Len(stated) = 1 /\ stated[1].n = Len(alerts)
                ELSE Len(stated) = 0

\* Two lending alerts and the impermanent-loss alert: the summary says three.
C28_Witness ==
    /\ Done("r1")
    /\ Len(report["r1"].critical_alerts) = 3
    /\ C15_IlAlertCount(report["r1"].critical_alerts) = 1
    /\ Len(C28_AlertClauses(report["r1"].summary)) = 1
    /\ C28_AlertClauses(report["r1"].summary)[1].n = 3

\* C29: however many LP positions there are, the LP upstream is called at most
\* once in a request and critical_alerts holds at most one impermanent-loss
\* alert, which is then its last element and names the first position.
C29_OnlyPrimaryLpAnalysed ==
    \A r \in Reqs :
        /\ Cardinality({ i \in 1..Len(calls[r]) : calls[r][i] = "lp" }) <= 1
        /\ LET alerts == frame[r].criticalAlerts
               il == { i \in 1..Len(alerts) : alerts[i].alert = "impermanent_loss" }
           IN  /\ il \subseteq {Len(alerts)}
               /\ \A i \in il :
                     alerts[i].protocol =
                        LpPositionsOf(frame[r].portfolioData)[1].protocol
        /\ Done(r) => report[r].critical_alerts = frame[r].criticalAlerts

\* Two LP positions detected, one LP call, and the alert of the first position
\* after the two lending alerts.
C29_Witness ==
    /\ Done("r1")
    /\ Len(LpPositionsOf(frame["r1"].portfolioData)) = 2
    /\ Len(report["r1"].critical_alerts) = 3
    /\ report["r1"].critical_alerts[3].alert = "impermanent_loss"
    /\ report["r1"].critical_alerts[3].protocol = "curve"

\* The calls a request makes from start to end, in the handler's order.
C30_Expected(r) ==
    <<"portfolio", "lending", "yield">>
    \o (IF Len(LpPositionsOf(frame[r].portfolioData)) > 0 THEN <<"lp">> ELSE <<>>)
    \o (IF input[r].include_perps THEN <<"perps">> ELSE <<>>)
    \o (IF input[r].include_arbitrage THEN <<"arbitrage">> ELSE <<>>)

C30_Order(service) ==
    CASE service = "portfolio" -> 1
      [] service = "lending" -> 2
      [] service = "yield" -> 3
      [] service = "lp" -> 4
      [] service = "perps" -> 5
      [] service = "arbitrage" -> 6

\* C30: the upstream calls of a request are issued one after another in the
\* order portfolio scan, lending, yield, LP, perps, arbitrage: a call is issued
\* only when the one before it has come back, so at most one is in flight, and a
\* request that returns has called lending and yield exactly once each whatever
\* the earlier calls came to.
C30_CallsSequentialInOrder ==
    \A r \in Reqs :
        /\ \A i, j \in 1..Len(calls[r]) :
              i < j => C30_Order(calls[r][i]) < C30_Order(calls[r][j])
        /\ Cardinality({ i \in 1..Len(calls[r]) : ~C24_Resolved(r, calls[r][i]) }) <= 1
        /\ (pc[r] \in Services /\ net[r].state = "idle") =>
              \A i \in 1..Len(calls[r]) : C30_Order(calls[r][i]) < C30_Order(pc[r])
        /\ Done(r) => calls[r] = C30_Expected(r)

\* Every earlier call failed and all six were still made, in order.
C30_Witness ==
    /\ Done("r1")
    /\ calls["r1"] = <<"portfolio", "lending", "yield", "lp", "perps", "arbitrage">>
    /\ frame["r1"].lendingData = Null
    /\ frame["r1"].yieldData = Null
    /\ frame["r1"].lpData = Null

====
